---- MODULE Spec2Model ----
(***************************************************************************)
(* A model of convert_exercises.py: the conversion of a directory of       *)
(* Dodona exercises into exercises-data.js.                                 *)
(*                                                                         *)
(* A text is a sequence of characters; a character is a one-character      *)
(* string (Backtick is a token, TLA+ strings cannot hold that character).   *)
(* A value read from JSON or YAML is a tagged record, so that values of     *)
(* different Python types can sit in one set.                               *)
(***************************************************************************)
EXTENDS Integers, Sequences, FiniteSets, TLC

\* pc         where the run is: listdir, scan, emit, write, summary, done, crashed
\* listing    os.listdir(base_dir), in enumeration order, each entry with its files
\* idx        the entry of listing the loop of line 91 is at
\* exercises  the list exercises of generate_exercises_js
\* scanned    exercises as the scan left it, before line 102 sorted it (history)
\* log        the lines printed by lines 76, 97 and 99
\* js_content the literals of js_content, one per exercise
\* outfile    exercises-data.js
\* summary    the lines printed by lines 149-153
\* cause      the statement an uncaught exception left from, or "none"
VARIABLES pc, listing, idx, exercises, scanned, log, js_content, outfile, summary, cause

vars == <<pc, listing, idx, exercises, scanned, log, js_content, outfile, summary, cause>>

-----------------------------------------------------------------------------
(* Characters *)

Backslash == "\\"
Backtick == "BACKTICK"
Dollar == "$"
LBrace == "{"
Newline == "\n"
Space == " "
Hyphen == "-"
EAcute == "é"

\* Unicode code points: Python orders str values by them.
CodePoint ==
    [c \in {Newline, Space, Dollar, Hyphen, "1", "2", "3", "4", "5", "A", "M", "Z",
            Backslash, "_", Backtick, "a", "b", "m", "x", "z", LBrace, EAcute} |->
        CASE c = Newline -> 10 [] c = Space -> 32 [] c = Dollar -> 36
          [] c = Hyphen -> 45 [] c = "1" -> 49 [] c = "2" -> 50 [] c = "3" -> 51
          [] c = "4" -> 52 [] c = "5" -> 53
          [] c = "A" -> 65 [] c = "M" -> 77 [] c = "Z" -> 90
          [] c = Backslash -> 92 [] c = "_" -> 95 [] c = Backtick -> 96
          [] c = "a" -> 97 [] c = "b" -> 98 [] c = "m" -> 109 [] c = "x" -> 120
          [] c = "z" -> 122 [] c = LBrace -> 123 [] c = EAcute -> 233]

\* str.lower() on one character.
LowerChar(c) ==
    CASE c = "A" -> "a" [] c = "M" -> "m" [] c = "Z" -> "z" [] OTHER -> c

\* The characters str.strip() removes when called without an argument.
IsWhitespace(c) == c \in {Space, Newline}

\* The character class [a-z0-9] of the regular expression.
InClassAZ09(c) ==
    \/ CodePoint[c] >= 97 /\ CodePoint[c] <= 122
    \/ CodePoint[c] >= 48 /\ CodePoint[c] <= 57

\* All texts over an alphabet, of length at most n.
TextsUpTo(alphabet, n) == UNION {[1..k -> alphabet] : k \in 0..n}

-----------------------------------------------------------------------------
(* convert_markdown_to_js_string *)

\* str.replace(old, new) for a one-character old.
RECURSIVE ReplaceChar(_, _, _)
ReplaceChar(s, old, new) ==
    IF s = <<>> THEN <<>>
    ELSE (IF Head(s) = old THEN new ELSE <<Head(s)>>) \o ReplaceChar(Tail(s), old, new)

\* str.replace(old, new) for the two-character old '${': leftmost matches,
\* not overlapping.
RECURSIVE ReplacePair(_, _, _, _)
ReplacePair(s, c1, c2, new) ==
    IF s = <<>> THEN <<>>
    ELSE IF Len(s) >= 2 /\ s[1] = c1 /\ s[2] = c2
         THEN new \o ReplacePair(SubSeq(s, 3, Len(s)), c1, c2, new)
         ELSE <<Head(s)>> \o ReplacePair(Tail(s), c1, c2, new)

\* The three replacements with the backslashes escaped last.
EscapeBackslashLast(markdown_content) ==
    ReplaceChar(
        ReplacePair(
            ReplaceChar(markdown_content, Backtick, <<Backslash, Backtick>>),
            Dollar, LBrace, <<Backslash, Dollar, LBrace>>),
        Backslash, <<Backslash, Backslash>>)

convert_markdown_to_js_string(markdown_content) ==
    ReplacePair(
        ReplaceChar(
            ReplaceChar(markdown_content, Backslash, <<Backslash, Backslash>>),
            Backtick, <<Backslash, Backtick>>),
        Dollar, LBrace, <<Backslash, Dollar, LBrace>>)

-----------------------------------------------------------------------------
(* folder_name_to_id *)

\* str.lower()
Lower(s) == [i \in 1..Len(s) |-> LowerChar(s[i])]

\* re.sub(r'[^a-z0-9]+', '-', s): every maximal run of characters outside
\* the class becomes one '-'.
RECURSIVE SkipRun(_)
SkipRun(s) ==
    IF s # <<>> /\ ~InClassAZ09(Head(s)) THEN SkipRun(Tail(s)) ELSE s

RECURSIVE ReSubRuns(_)
ReSubRuns(s) ==
    IF s = <<>> THEN <<>>
    ELSE IF InClassAZ09(Head(s)) THEN <<Head(s)>> \o ReSubRuns(Tail(s))
    ELSE <<Hyphen>> \o ReSubRuns(SkipRun(s))

\* str.strip('-')
RECURSIVE LStripChar(_, _)
LStripChar(s, c) ==
    IF s # <<>> /\ Head(s) = c THEN LStripChar(Tail(s), c) ELSE s

RECURSIVE RStripChar(_, _)
RStripChar(s, c) ==
    IF s # <<>> /\ s[Len(s)] = c THEN RStripChar(SubSeq(s, 1, Len(s) - 1), c) ELSE s

StripChar(s, c) == RStripChar(LStripChar(s, c), c)

\* The id with the '-' at its ends left in place.
FolderNameToIdUnstripped(folder_name) == ReSubRuns(Lower(folder_name))

folder_name_to_id(folder_name) == StripChar(ReSubRuns(Lower(folder_name)), Hyphen)

-----------------------------------------------------------------------------
(* The stdin blob of a test case: str.strip() and str.split *)

RECURSIVE LStrip(_)
LStrip(s) == IF s # <<>> /\ IsWhitespace(Head(s)) THEN LStrip(Tail(s)) ELSE s

RECURSIVE RStrip(_)
RStrip(s) ==
    IF s # <<>> /\ IsWhitespace(s[Len(s)]) THEN RStrip(SubSeq(s, 1, Len(s) - 1)) ELSE s

\* str.strip()
Strip(s) == RStrip(LStrip(s))

\* str.split(sep): the text before the first sep, then the split of the rest;
\* the split of the empty text is one empty text.
RECURSIVE SplitAcc(_, _, _)
SplitAcc(s, sep, cur) ==
    IF s = <<>> THEN <<cur>>
    ELSE IF Head(s) = sep THEN <<cur>> \o SplitAcc(Tail(s), sep, <<>>)
    ELSE SplitAcc(Tail(s), sep, Append(cur, Head(s)))

Split(s, sep) == SplitAcc(s, sep, <<>>)

\* The lines with the blob trimmed at its end only.
StdinLinesRStripped(blob) == Split(RStrip(blob), Newline)

\* Line 67: test_case['stdin'].strip().split('\n')
StdinLines(blob) == Split(Strip(blob), Newline)

-----------------------------------------------------------------------------
(* Values read from config.json and suite.yaml *)

Null == [tag |-> "null"]
Date == [tag |-> "date"]
Str(s) == [tag |-> "str", s |-> s]
Num(n) == [tag |-> "int", n |-> n]
List(l) == [tag |-> "list", l |-> l]
\* A mapping is its set of <<key, value>> pairs.
Map(items) == [tag |-> "map", items |-> items]

Ok(v) == [ok |-> TRUE, v |-> v]
Raise(e) == [ok |-> FALSE, err |-> e]

\* Python's truth value of a value.
Truthy(v) ==
    CASE v.tag = "str" -> v.s # <<>>
      [] v.tag = "int" -> v.n # 0
      [] v.tag = "list" -> v.l # <<>>
      [] v.tag = "map" -> v.items # {}
      [] v.tag = "date" -> TRUE
      [] OTHER -> FALSE

HasKey(m, key) == \E p \in m.items : p[1] = key

\* dict.get(key, default)
Get(m, key, default) ==
    IF HasKey(m, key) THEN (CHOOSE p \in m.items : p[1] = key)[2] ELSE default

-----------------------------------------------------------------------------
(* read_file_safe *)

\* A file is missing, undecodable, unreadable for another reason, or a text.
read_file_safe(file) ==
    CASE file.tag = "text" -> Ok(file.s)
      [] file.tag \in {"missing", "undecodable"} -> Ok(<<>>)
      [] OTHER -> Raise("OSError")

-----------------------------------------------------------------------------
(* convert_exercise *)

\* Lines 35-38: config = {} unless config.json exists, then json.load.
LoadConfig(entry) ==
    IF ~entry.hasconfig THEN Ok(Map({}))
    ELSE IF entry.config.tag = "badjson" THEN Raise("JSONDecodeError")
    ELSE Ok(entry.config.v)

\* Line 41: config.get('description', {}).get('names', {}).get('en', folder_name)
Title(config, folder_name) ==
    IF config.tag # "map" THEN Raise("AttributeError")
    ELSE LET d == Get(config, "description", Map({})) IN
         IF d.tag # "map" THEN Raise("AttributeError")
         ELSE LET n == Get(d, "names", Map({})) IN
              IF n.tag # "map" THEN Raise("AttributeError")
              ELSE Ok(Get(n, "en", Str(folder_name)))

\* Lines 65-74: one test case of a tab.
TestCaseOf(test_case) ==
    IF test_case.tag # "map"
    THEN Raise(IF test_case.tag \in {"str", "list"} THEN "AttributeError" ELSE "TypeError")
    ELSE LET hasInput == HasKey(test_case, "stdin") /\ Truthy(Get(test_case, "stdin", Null))
             stdin == Get(test_case, "stdin", Null)
         IN  IF hasInput /\ stdin.tag # "str" THEN Raise("AttributeError")
             ELSE Ok([arguments |-> Get(test_case, "arguments", List(<<>>)),
                      expectedOutput |-> Get(test_case, "stdout", Str(<<>>)),
                      expectedExitCode |-> Get(test_case, "exit_code", Num(0)),
                      input |-> IF hasInput THEN StdinLines(stdin.s) ELSE <<>>])

\* Line 63: for test_case in tab['testcases']
RECURSIVE TestCasesOf(_)
TestCasesOf(entries) ==
    IF entries = <<>> THEN Ok(<<>>)
    ELSE LET first == TestCaseOf(Head(entries)) IN
         IF ~first.ok THEN first
         ELSE LET rest == TestCasesOf(Tail(entries)) IN
              IF ~rest.ok THEN rest ELSE Ok(<<first.v>> \o rest.v)

\* Lines 62-63: one tab of the suite.
TabCases(tab) ==
    CASE tab.tag = "map" ->
            IF ~HasKey(tab, "testcases") THEN Ok(<<>>)
            ELSE LET tcs == Get(tab, "testcases", Null) IN
                 CASE tcs.tag = "list" -> TestCasesOf(tcs.l)
                   [] tcs.tag = "str" /\ tcs.s = <<>> -> Ok(<<>>)
                   [] tcs.tag = "map" /\ tcs.items = {} -> Ok(<<>>)
                   [] tcs.tag \in {"str", "map"} -> Raise("AttributeError")
                   [] OTHER -> Raise("TypeError")
      \* 'testcases' in tab, for a text or a list that does not hold it
      [] tab.tag \in {"str", "list"} -> Ok(<<>>)
      [] OTHER -> Raise("TypeError")

\* The loop of line 61 with each tab's test cases put in front of those
\* already collected.
RECURSIVE SuiteCasesPrepended(_)
SuiteCasesPrepended(tabs) ==
    IF tabs = <<>> THEN Ok(<<>>)
    ELSE LET first == TabCases(Head(tabs)) IN
         IF ~first.ok THEN first
         ELSE LET rest == SuiteCasesPrepended(Tail(tabs)) IN
              IF ~rest.ok THEN rest ELSE Ok(<<>> \o rest.v \o first.v)

\* Line 61: for tab in suite_data
RECURSIVE SuiteCases(_)
SuiteCases(tabs) ==
    IF tabs = <<>> THEN Ok(<<>>)
    ELSE LET first == TabCases(Head(tabs)) IN
         IF ~first.ok THEN first
         ELSE LET rest == SuiteCases(Tail(tabs)) IN
              IF ~rest.ok THEN rest ELSE Ok(<<>> \o first.v \o rest.v)

\* The suite read with no handler for yaml.YAMLError.
ReadSuiteUncaught(suite) ==
    CASE suite.tag = "missing" -> [ok |-> TRUE, v |-> <<>>, warned |-> FALSE]
      [] suite.tag = "yamlerror" -> Raise("YAMLError")
      [] suite.tag = "data" ->
            IF Truthy(suite.v) /\ suite.v.tag = "list"
            THEN LET r == SuiteCases(suite.v.l) IN
                 IF r.ok THEN [ok |-> TRUE, v |-> r.v, warned |-> FALSE] ELSE r
            ELSE [ok |-> TRUE, v |-> <<>>, warned |-> FALSE]
      [] OTHER -> Raise("OSError")

\* Lines 53-76: the test cases of suite.yaml and whether the warning is printed.
\* Only yaml.YAMLError is caught here.
ReadSuite(suite) ==
    CASE suite.tag = "missing" -> [ok |-> TRUE, v |-> <<>>, warned |-> FALSE]
      [] suite.tag = "yamlerror" -> [ok |-> TRUE, v |-> <<>>, warned |-> TRUE]
      [] suite.tag = "data" ->
            IF Truthy(suite.v) /\ suite.v.tag = "list"
            THEN LET r == SuiteCases(suite.v.l) IN
                 IF r.ok THEN [ok |-> TRUE, v |-> r.v, warned |-> FALSE] ELSE r
            ELSE [ok |-> TRUE, v |-> <<>>, warned |-> FALSE]
      [] OTHER -> Raise("OSError")

\* The record of one exercise directory, or the exception that leaves it.
convert_exercise(entry) ==
    LET folder_name == entry.name
        config == LoadConfig(entry)
    IN  IF ~config.ok THEN config
        ELSE LET title == Title(config.v, folder_name) IN
             IF ~title.ok THEN title
             ELSE LET description == read_file_safe(entry.description) IN
                  IF ~description.ok THEN description
                  ELSE LET solution == read_file_safe(entry.solution) IN
                       IF ~solution.ok THEN solution
                       ELSE LET test_cases == ReadSuite(entry.suite) IN
                            IF ~test_cases.ok THEN test_cases
                            ELSE [ok |-> TRUE,
                                  warned |-> test_cases.warned,
                                  v |-> [id |-> folder_name_to_id(folder_name),
                                         title |-> title.v,
                                         description |-> description.v,
                                         solution |-> solution.v,
                                         testCases |-> test_cases.v]]

-----------------------------------------------------------------------------
(* generate_exercises_js: the sort of line 102 *)

\* a < b on two str values: by code points, a proper prefix first.
RECURSIVE TextLess(_, _)
TextLess(a, b) ==
    IF b = <<>> THEN FALSE
    ELSE IF a = <<>> THEN TRUE
    ELSE IF Head(a) = Head(b) THEN TextLess(Tail(a), Tail(b))
    ELSE CodePoint[Head(a)] < CodePoint[Head(b)]

\* Whether a < b is defined on two titles (texts and integers occur as titles).
Comparable(a, b) == a.tag = b.tag /\ a.tag \in {"str", "int"}

\* a < b on two comparable titles.
KeyLess(a, b) == IF a.tag = "str" THEN TextLess(a.s, b.s) ELSE a.n < b.n

\* list.sort raises TypeError as soon as it compares two keys that have no
\* order; with two or more elements every element is compared.
SortRaises(exs) ==
    \E i, j \in 1..Len(exs) : i # j /\ ~Comparable(exs[i].title, exs[j].title)

\* x put behind every element whose key is not greater than x's.
RECURSIVE InsertByTitle(_, _)
InsertByTitle(sorted, x) ==
    IF sorted = <<>> THEN <<x>>
    ELSE IF KeyLess(x.title, Head(sorted).title) THEN <<x>> \o sorted
    ELSE <<Head(sorted)>> \o InsertByTitle(Tail(sorted), x)

\* The sort with x put in front of the elements whose key equals x's: ties
\* come out in reverse scan order.
RECURSIVE InsertBeforeEqual(_, _)
InsertBeforeEqual(sorted, x) ==
    IF sorted = <<>> THEN <<x>>
    ELSE IF ~KeyLess(Head(sorted).title, x.title) THEN <<x>> \o sorted
    ELSE <<Head(sorted)>> \o InsertBeforeEqual(Tail(sorted), x)

RECURSIVE SortByTitleUnstable(_)
SortByTitleUnstable(exs) ==
    IF exs = <<>> THEN <<>>
    ELSE InsertBeforeEqual(SortByTitleUnstable(SubSeq(exs, 1, Len(exs) - 1)),
                           exs[Len(exs)])

\* exercises.sort(key=lambda x: x['title']): a stable sort (the binary
\* insertion sort list.sort runs on short lists).
RECURSIVE SortByTitle(_)
SortByTitle(exs) ==
    IF exs = <<>> THEN <<>>
    ELSE InsertByTitle(SortByTitle(SubSeq(exs, 1, Len(exs) - 1)), exs[Len(exs)])

-----------------------------------------------------------------------------
(* generate_exercises_js: the literals of lines 107-134 *)

Digits == <<"0", "1", "2", "3", "4", "5", "6", "7", "8", "9">>

RECURSIVE NatText(_)
NatText(n) ==
    IF n < 10 THEN <<Digits[n + 1]>> ELSE NatText(n \div 10) \o <<Digits[(n % 10) + 1]>>

\* str(n)
IntText(n) == IF n < 0 THEN <<Hyphen>> \o NatText(0 - n) ELSE NatText(n)

\* The f-string's {value}: str(value). Texts and integers occur here.
PyStr(v) == IF v.tag = "str" THEN v.s ELSE IntText(v.n)

\* json.dumps on a str: quoted, with the quote, the backslash and the
\* newline escaped.
RECURSIVE JsonEscape(_)
JsonEscape(s) ==
    IF s = <<>> THEN <<>>
    ELSE (CASE Head(s) = "\"" -> <<Backslash, "\"">>
            [] Head(s) = Backslash -> <<Backslash, Backslash>>
            [] Head(s) = Newline -> <<Backslash, "n">>
            [] OTHER -> <<Head(s)>>) \o JsonEscape(Tail(s))

\* json.dumps(value): the text, or TypeError for a value it cannot encode
\* (yaml.safe_load builds dates, which json.dumps refuses).
RECURSIVE JsonDumps(_)
RECURSIVE JsonItems(_)
JsonItems(l) ==
    IF l = <<>> THEN Ok(<<>>)
    ELSE LET first == JsonDumps(Head(l)) IN
         IF ~first.ok THEN first
         ELSE IF Len(l) = 1 THEN first
         ELSE LET rest == JsonItems(Tail(l)) IN
              IF ~rest.ok THEN rest ELSE Ok(first.v \o <<",", Space>> \o rest.v)

JsonDumps(v) ==
    CASE v.tag = "str" -> Ok(<<"\"">> \o JsonEscape(v.s) \o <<"\"">>)
      [] v.tag = "int" -> Ok(IntText(v.n))
      [] v.tag = "null" -> Ok(<<"n", "u", "l", "l">>)
      [] v.tag = "list" ->
            LET items == JsonItems(v.l) IN
            IF ~items.ok THEN items ELSE Ok(<<"[">> \o items.v \o <<"]">>)
      [] v.tag = "date" -> Raise("TypeError")

\* Lines 116-125: the literal of one test case, a sequence of <<key, text>>.
TestCaseLiteral(test_case) ==
    LET arguments == JsonDumps(test_case.arguments)
        expectedOutput == JsonDumps(test_case.expectedOutput)
        input == JsonDumps(List([i \in 1..Len(test_case.input) |-> Str(test_case.input[i])]))
    IN  IF ~arguments.ok THEN arguments
        ELSE IF ~expectedOutput.ok THEN expectedOutput
        ELSE Ok(<< <<"arguments", arguments.v>>,
                   <<"expectedOutput", expectedOutput.v>>,
                   <<"expectedExitCode", PyStr(test_case.expectedExitCode)>> >>
                \o (IF test_case.input # <<>> THEN << <<"input", input.v>> >> ELSE <<>>))

\* Line 115: for test_case in exercise["testCases"]
RECURSIVE TestCaseLiterals(_)
TestCaseLiterals(test_cases) ==
    IF test_cases = <<>> THEN Ok(<<>>)
    ELSE LET first == TestCaseLiteral(Head(test_cases)) IN
         IF ~first.ok THEN first
         ELSE LET rest == TestCaseLiterals(Tail(test_cases)) IN
              IF ~rest.ok THEN rest ELSE Ok(<<first.v>> \o rest.v)

\* Lines 108-128: the literal of one exercise.
ExerciseLiteral(exercise) ==
    LET cases == TestCaseLiterals(exercise.testCases) IN
    IF ~cases.ok THEN cases
    ELSE Ok([id |-> exercise.id,
             title |-> PyStr(exercise.title),
             description |-> convert_markdown_to_js_string(exercise.description),
             solution |-> convert_markdown_to_js_string(exercise.solution),
             testCases |-> cases.v])

\* Line 107: for i, exercise in enumerate(exercises)
RECURSIVE ExerciseLiterals(_)
ExerciseLiterals(exs) ==
    IF exs = <<>> THEN Ok(<<>>)
    ELSE LET first == ExerciseLiteral(Head(exs)) IN
         IF ~first.ok THEN first
         ELSE LET rest == ExerciseLiterals(Tail(exs)) IN
              IF ~rest.ok THEN rest ELSE Ok(<<first.v>> \o rest.v)

-----------------------------------------------------------------------------
(* __main__: the summary of lines 148-153 *)

SummaryLine(exercise) ==
    LET has_input == \E i \in 1..Len(exercise.testCases) :
                        "input" \in DOMAIN exercise.testCases[i]
    IN  [title |-> PyStr(exercise.title),
         test_count |-> Len(exercise.testCases),
         has_input |-> has_input,
         input_note |-> IF has_input THEN " (with input)" ELSE ""]

-----------------------------------------------------------------------------
(* The run, step by step *)

\* Line 91: os.listdir(base_dir) returns the listing or raises.
ListDir ==
    /\ pc = "listdir"
    /\ \E readable \in BOOLEAN :
          IF readable THEN pc' = "scan" /\ cause' = cause
          ELSE pc' = "crashed" /\ cause' = "listdir"
    /\ UNCHANGED <<listing, idx, exercises, scanned, log, js_content, outfile, summary>>

\* The loop without its recovery: a directory that fails ends the scan.
ScanItemStopsAtFailure ==
    /\ pc = "scan"
    /\ idx <= Len(listing)
    /\ LET item == listing[idx] IN
       IF item.isdir /\ item.hasconfig
       THEN LET exercise == convert_exercise(item) IN
            IF exercise.ok
            THEN /\ exercises' = Append(exercises, exercise.v)
                 /\ log' = Append(log, [kind |-> "converted",
                                        name |-> PyStr(exercise.v.title),
                                        count |-> Len(exercise.v.testCases)])
                 /\ idx' = idx + 1
            ELSE /\ exercises' = exercises
                 /\ log' = Append(log, [kind |-> "error", name |-> item.name,
                                        err |-> exercise.err])
                 /\ idx' = Len(listing) + 1
       ELSE UNCHANGED <<exercises, log>> /\ idx' = idx + 1
    /\ UNCHANGED <<pc, listing, scanned, js_content, outfile, summary, cause>>

\* Lines 91-99: one pass of the loop over the listing.
ScanItem ==
    /\ pc = "scan"
    /\ idx <= Len(listing)
    /\ LET item == listing[idx] IN
       IF item.isdir /\ item.hasconfig
       THEN LET exercise == convert_exercise(item) IN
            IF exercise.ok
            THEN /\ exercises' = Append(exercises, exercise.v)
                 /\ log' = log
                        \o (IF exercise.warned
                            THEN <<[kind |-> "warning", name |-> item.name]>> ELSE <<>>)
                        \o <<[kind |-> "converted", name |-> PyStr(exercise.v.title),
                              count |-> Len(exercise.v.testCases)]>>
            ELSE /\ exercises' = exercises
                 /\ log' = Append(log, [kind |-> "error", name |-> item.name,
                                        err |-> exercise.err])
       ELSE UNCHANGED <<exercises, log>>
    /\ idx' = idx + 1
    /\ UNCHANGED <<pc, listing, scanned, js_content, outfile, summary, cause>>

\* Line 102: the sort, once the loop is over.
SortExercises ==
    /\ pc = "scan"
    /\ idx > Len(listing)
    /\ scanned' = exercises
    /\ IF SortRaises(exercises)
       THEN pc' = "crashed" /\ cause' = "sort" /\ UNCHANGED exercises
       ELSE pc' = "emit" /\ exercises' = SortByTitle(exercises) /\ UNCHANGED cause
    /\ UNCHANGED <<listing, idx, log, js_content, outfile, summary>>

\* Lines 105-134: js_content.
Emit ==
    /\ pc = "emit"
    /\ LET content == ExerciseLiterals(exercises) IN
       IF content.ok
       THEN pc' = "write" /\ js_content' = content.v /\ UNCHANGED cause
       ELSE pc' = "crashed" /\ cause' = "emit" /\ UNCHANGED js_content
    /\ UNCHANGED <<listing, idx, exercises, scanned, log, outfile, summary>>

\* Lines 137-142: the file is written, or open or write raises.
WriteFile ==
    /\ pc = "write"
    /\ \E writable \in BOOLEAN :
          IF writable
          THEN /\ pc' = "summary"
               /\ outfile' = [written |-> TRUE, content |-> js_content]
               /\ log' = Append(log, [kind |-> "generated", count |-> Len(exercises)])
               /\ UNCHANGED cause
          ELSE pc' = "crashed" /\ cause' = "write" /\ UNCHANGED <<outfile, log>>
    /\ UNCHANGED <<listing, idx, exercises, scanned, js_content, summary>>

\* Lines 148-153.
Summary ==
    /\ pc = "summary"
    /\ summary' = [i \in 1..Len(exercises) |-> SummaryLine(exercises[i])]
    /\ pc' = "done"
    /\ UNCHANGED <<listing, idx, exercises, scanned, log, js_content, outfile, cause>>

Next == ListDir \/ ScanItem \/ SortExercises \/ Emit \/ WriteFile \/ Summary

-----------------------------------------------------------------------------
(* The directories a run starts from *)

TextFile(s) == [tag |-> "text", s |-> s]
Missing == [tag |-> "missing"]
Undecodable == [tag |-> "undecodable"]
Unreadable == [tag |-> "ioerror"]
BadJson == [tag |-> "badjson"]
Json(v) == [tag |-> "json", v |-> v]
YamlError == [tag |-> "yamlerror"]
Yaml(v) == [tag |-> "data", v |-> v]

\* config.json with description.names.en = v
ConfigWithTitle(v) ==
    Json(Map({<<"description", Map({<<"names", Map({<<"en", v>>})>>})>>}))

\* The names of the entries, by position in the listing: a directory holds
\* no name twice.
NamePool ==
    << <<"Z", Space, "1">>, <<"a", "_", "2">>, <<"M", Hyphen, "3">>,
       <<"b", "4">>, <<"x", Space, Space, "5">> >>

\* An entry that is no directory, and a directory without config.json.
PlainFile ==
    [isdir |-> FALSE, hasconfig |-> FALSE, config |-> BadJson,
     description |-> Missing, solution |-> Missing, suite |-> Missing]
NoMarker ==
    [isdir |-> TRUE, hasconfig |-> FALSE, config |-> BadJson,
     description |-> Missing, solution |-> Missing, suite |-> Missing]

ExerciseDirs(configs, descriptions, solutions, suites) ==
    [isdir : {TRUE}, hasconfig : {TRUE}, config : configs,
     description : descriptions, solution : solutions, suite : suites]

Named(name, content) ==
    [name |-> name, isdir |-> content.isdir, hasconfig |-> content.hasconfig,
     config |-> content.config, description |-> content.description,
     solution |-> content.solution, suite |-> content.suite]

\* The listing of the entries with the contents f[1], f[2], ...
ListingOf(f) == [i \in 1..Len(f) |-> Named(NamePool[i], f[i])]

InitWith(l) ==
    /\ pc = "listdir"
    /\ listing = l
    /\ idx = 1
    /\ exercises = <<>>
    /\ scanned = <<>>
    /\ log = <<>>
    /\ js_content = <<>>
    /\ outfile = [written |-> FALSE, content |-> <<>>]
    /\ summary = <<>>
    /\ cause = "none"

-----------------------------------------------------------------------------
(* Spec: a batch of directories, well-formed and not *)

MaxDirs == 3

PlainCase == Map({<<"stdout", Str(<<"x">>)>>})
DateCase == Map({<<"arguments", List(<<Date>>)>>})

\* config.json that does not parse, without a title, with the title "a" and
\* with the title 1.
ConfigsBatch ==
    {BadJson, Json(Map({})), ConfigWithTitle(Str(<<"a">>)), ConfigWithTitle(Num(1))}

\* No suite.yaml, one with a plain test case, and one whose test case has a
\* date among its arguments.
SuitesBatch ==
    {Missing,
     Yaml(List(<<Map({<<"testcases", List(<<PlainCase>>)>>})>>)),
     Yaml(List(<<Map({<<"testcases", List(<<DateCase>>)>>})>>))}

ContentsBatch ==
    {PlainFile, NoMarker}
        \cup ExerciseDirs(ConfigsBatch, {Missing}, {Missing}, SuitesBatch)

Init ==
    \E k \in 0..MaxDirs : \E f \in [1..k -> ContentsBatch] : InitWith(ListingOf(f))

Spec == Init /\ [][Next]_vars

-----------------------------------------------------------------------------
(* Properties of the batch *)

IsCandidate(entry) == entry.isdir /\ entry.hasconfig
Converts(entry) == IsCandidate(entry) /\ convert_exercise(entry).ok
Fails(entry) == IsCandidate(entry) /\ ~convert_exercise(entry).ok

\* The records of the directories of entries that convert, in order, each
\* converted on its own.
RecordsOf(entries) ==
    LET good == SelectSeq(entries, Converts)
    IN  [i \in 1..Len(good) |-> convert_exercise(good[i]).v]

ScanIsOver == pc \in {"emit", "write", "summary", "done"} \/ cause \in {"sort", "emit", "write"}

\* C1: a directory whose conversion raises contributes no record and an
\* error line, the scan goes on behind it, and the collection holds exactly
\* the record of every directory that converts, as if the failed ones were
\* not there.
C1_FailedDirectoryContributesNothing ==
    /\ pc = "scan" =>
          /\ exercises = RecordsOf(SubSeq(listing, 1, idx - 1))
          /\ \A k \in 1..(idx - 1) :
                Fails(listing[k]) =>
                   \E n \in 1..Len(log) :
                      log[n].kind = "error" /\ log[n].name = listing[k].name
    /\ ScanIsOver =>
          /\ scanned = RecordsOf(listing)
          /\ scanned = RecordsOf(SelectSeq(listing, Converts))
          /\ Len(scanned) = Cardinality({k \in 1..Len(listing) : Converts(listing[k])})
          /\ \A k \in 1..Len(listing) :
                Fails(listing[k]) =>
                   \A i \in 1..Len(scanned) :
                      scanned[i].id # folder_name_to_id(listing[k].name)
    /\ outfile.written => Len(outfile.content) = Len(RecordsOf(listing))

\* A failed directory in front of one that converts, the run finished.
C1_Witness ==
    /\ pc = "done"
    /\ \E k, j \in 1..Len(listing) :
          k < j /\ Fails(listing[k]) /\ Converts(listing[j])
    /\ Len(outfile.content) >= 1

\* C2: a run ends early only where the listing cannot be read or the file
\* cannot be written; nothing in a directory's files ends it.
C2_OnlyListingOrWriteEndsTheRun ==
    pc = "crashed" => cause \in {"listdir", "write"}

Orderings(n) == {p \in [1..n -> 1..n] : \A i, j \in 1..n : i # j => p[i] # p[j]}

\* C3: the file lists the records by title, not decreasing in Python's order
\* of str (code points, so case matters), and records of one title in the
\* order the scan met them.
C3_EmittedSortedByTitleStable ==
    outfile.written =>
       \E p \in Orderings(Len(scanned)) :
          /\ Len(outfile.content) = Len(scanned)
          /\ \A i \in 1..Len(scanned) :
                /\ outfile.content[i].id = scanned[p[i]].id
                /\ outfile.content[i].title = PyStr(scanned[p[i]].title)
          /\ \A i, j \in 1..Len(scanned) :
                i < j =>
                   /\ ~KeyLess(scanned[p[j]].title, scanned[p[i]].title)
                   /\ scanned[p[i]].title = scanned[p[j]].title => p[i] < p[j]

\* Two records of one title and a third of a smaller one scanned after them.
C3_Witness ==
    /\ outfile.written
    /\ \E i, j, k \in 1..Len(scanned) :
          /\ i < j /\ j < k
          /\ scanned[i].title = scanned[j].title
          /\ KeyLess(scanned[k].title, scanned[i].title)

-----------------------------------------------------------------------------
(* SpecSuite: one exercise directory and the suites it may hold *)

MaxTabs == 2
MaxCases == 3

\* Test cases without stdin, with an empty one, with one of whitespace only,
\* and with two lines of input and every other field set.
SuiteCaseKinds ==
    {Map({}),
     Map({<<"stdin", Str(<<>>)>>}),
     Map({<<"stdin", Str(<<Newline>>)>>}),
     Map({<<"stdin", Str(<<"a", Newline, "b", Newline>>)>>,
          <<"arguments", List(<<Str(<<"x">>)>>)>>,
          <<"stdout", Str(<<"x", Newline>>)>>,
          <<"exit_code", Num(2)>>})}

TabWithCases(cases) == Map({<<"testcases", List(cases)>>})
TabWithoutKey == Map({<<"tab", Str(<<"x">>)>>})
TabWithNull == Map({<<"testcases", Null>>})

\* The tabs that hold at most c test cases.
TabsUpTo(c) ==
    {TabWithoutKey, TabWithNull}
        \cup {TabWithCases(cases) : cases \in TextsUpTo(SuiteCaseKinds, c)}

NumCases(tab) ==
    IF HasKey(tab, "testcases") /\ Get(tab, "testcases", Null).tag = "list"
    THEN Len(Get(tab, "testcases", Null).l) ELSE 0

\* The suites of at most t tabs and at most c test cases in all.
RECURSIVE TabSeqs(_, _)
TabSeqs(t, c) ==
    IF t = 0 THEN {<<>>}
    ELSE {<<>>} \cup
         UNION {{<<tab>> \o rest : rest \in TabSeqs(t - 1, c - NumCases(tab))} :
                tab \in TabsUpTo(c)}

SuitesUpTo(t, c) ==
    {Missing, YamlError, Unreadable, Yaml(Null), Yaml(Map({<<"tab", Str(<<"x">>)>>}))}
        \cup {Yaml(List(tabs)) : tabs \in TabSeqs(t, c)}

InitSuite ==
    \E content \in ExerciseDirs({Json(Map({})), BadJson}, {Missing}, {Missing},
                            SuitesUpTo(MaxTabs, MaxCases)) :
       InitWith(<<Named(NamePool[1], content)>>)

SpecSuite == InitSuite /\ [][Next]_vars

-----------------------------------------------------------------------------
(* Properties of one exercise directory *)

\* The directory of a listing of one entry, and what the run made of it.
TheDir == listing[1]
TheRecord == scanned[1]
TheLiteral == outfile.content[1]
OneConverted == Len(listing) = 1 /\ outfile.written /\ Len(outfile.content) = 1

\* The entries of the suite's test cases, tab after tab, read off the parsed
\* document (a list of mappings, each testcases value a list).
SourceCases(tabs) ==
    LET n == Len(tabs)
        size[k \in 0..n] ==
            IF k = 0 THEN 0 ELSE size[k - 1] + NumCases(tabs[k])
        TabOf(i) == CHOOSE k \in 1..n : size[k - 1] < i /\ i <= size[k]
    IN  [i \in 1..size[n] |->
            Get(tabs[TabOf(i)], "testcases", Null).l[i - size[TabOf(i) - 1]]]

WellFormedSuite(suite) ==
    /\ suite.tag = "data" /\ suite.v.tag = "list"
    /\ \A k \in 1..Len(suite.v.l) :
          /\ suite.v.l[k].tag = "map"
          /\ HasKey(suite.v.l[k], "testcases") =>
                Get(suite.v.l[k], "testcases", Null).tag = "list"

\* A stdin field that is a text with a character that is no whitespace.
StdinNonBlank(test_case) ==
    /\ HasKey(test_case, "stdin")
    /\ LET stdin == Get(test_case, "stdin", Null) IN
       stdin.tag = "str" /\ \E i \in 1..Len(stdin.s) : ~IsWhitespace(stdin.s[i])

HasInputKey(literal) == \E i \in 1..Len(literal) : literal[i][1] = "input"

\* C6: a test case's literal holds the key input exactly when the entry has a
\* stdin that is not empty after trimming; without one the record's input is
\* empty and the key is left out.
C6_InputKeyIffStdinNonBlank ==
    (OneConverted /\ WellFormedSuite(TheDir.suite)) =>
       LET src == SourceCases(TheDir.suite.v.l) IN
       /\ Len(TheLiteral.testCases) = Len(src)
       /\ \A i \in 1..Len(src) :
             /\ HasInputKey(TheLiteral.testCases[i]) <=> StdinNonBlank(src[i])
             /\ ~StdinNonBlank(src[i]) => TheRecord.testCases[i].input = <<>>

ConfigLoads(entry) ==
    /\ LoadConfig(entry).ok
    /\ Title(LoadConfig(entry).v, entry.name).ok
    /\ read_file_safe(entry.description).ok
    /\ read_file_safe(entry.solution).ok

Warned(name) ==
    \E n \in 1..Len(log) : log[n].kind = "warning" /\ log[n].name = name

\* C8: a suite file that is there and does not parse leaves a record with no
\* test cases, which is written, and a warning that names the folder; a suite
\* file that is not there leaves no test cases and no warning.
C8_UnparsableSuiteGivesEmptyTestCases ==
    (Len(listing) = 1 /\ IsCandidate(TheDir) /\ ConfigLoads(TheDir)) =>
       /\ (TheDir.suite.tag = "yamlerror" /\ ScanIsOver) =>
             /\ Len(scanned) = 1
             /\ TheRecord.id = folder_name_to_id(TheDir.name)
             /\ TheRecord.testCases = <<>>
             /\ Warned(TheDir.name)
             /\ outfile.written =>
                   Len(outfile.content) = 1 /\ TheLiteral.testCases = <<>>
       /\ (TheDir.suite.tag = "missing" /\ ScanIsOver) =>
             /\ Len(scanned) = 1
             /\ TheRecord.testCases = <<>>
             /\ ~Warned(TheDir.name)
       /\ (TheDir.suite.tag = "data" /\ ScanIsOver) => ~Warned(TheDir.name)

C8_Witness == OneConverted /\ TheDir.suite.tag = "yamlerror" /\ pc = "done"

\* C9: the summary marks an exercise as having input exactly when one of its
\* test cases has a non-empty input.
C9_InputNoteIffSomeInput ==
    pc = "done" =>
       \A i \in 1..Len(summary) :
          summary[i].input_note = " (with input)"
             <=> \E k \in 1..Len(exercises[i].testCases) :
                    exercises[i].testCases[k].input # <<>>

\* C10: the record's test cases are those of the tabs that have the key
\* testcases, tab after tab and entry after entry, one each, and the file
\* lists their literals in that order.
C10_TestCasesInSuiteOrder ==
    (Len(listing) = 1 /\ ScanIsOver /\ IsCandidate(TheDir) /\ ConfigLoads(TheDir)
        /\ WellFormedSuite(TheDir.suite)) =>
       LET src == SourceCases(TheDir.suite.v.l) IN
       /\ Len(scanned) = 1
       /\ Len(TheRecord.testCases) = Len(src)
       /\ \A i \in 1..Len(src) : TheRecord.testCases[i] = TestCaseOf(src[i]).v
       /\ outfile.written =>
             /\ Len(TheLiteral.testCases) = Len(src)
             /\ \A i \in 1..Len(src) :
                   TheLiteral.testCases[i] = TestCaseLiteral(TestCaseOf(src[i]).v).v

\* Two tabs with test cases, three in all, the first unlike the last.
C10_Witness ==
    /\ OneConverted /\ WellFormedSuite(TheDir.suite)
    /\ Len(TheDir.suite.v.l) = 2
    /\ NumCases(TheDir.suite.v.l[1]) >= 1 /\ NumCases(TheDir.suite.v.l[2]) >= 1
    /\ Len(TheLiteral.testCases) = 3
    /\ TheLiteral.testCases[1] # TheLiteral.testCases[3]

-----------------------------------------------------------------------------
(* SpecEsc: one exercise directory and the texts of its description *)

MaxTextLen == 4

EscAlphabet == {Backslash, Backtick, Dollar, LBrace, "x"}

InitEsc ==
    \E content \in ExerciseDirs(
            {Json(Map({}))},
            {Missing, Undecodable, Unreadable}
                \cup {TextFile(t) : t \in TextsUpTo(EscAlphabet, MaxTextLen)},
            {Missing, TextFile(<<Dollar, LBrace, Backtick>>)},
            {Missing}) :
       InitWith(<<Named(NamePool[1], content)>>)

SpecEsc == InitEsc /\ [][Next]_vars

\* A template literal's body read from the left: a backslash takes the next
\* character with it. Each token is <<escaped?, character>>; a backslash at
\* the end has nothing to take and gives the token <<TRUE, "">>.
RECURSIVE TemplateTokens(_)
TemplateTokens(s) ==
    IF s = <<>> THEN <<>>
    ELSE IF Head(s) = Backslash
         THEN IF Len(s) = 1 THEN << <<TRUE, "">> >>
              ELSE << <<TRUE, s[2]>> >> \o TemplateTokens(SubSeq(s, 3, Len(s)))
         ELSE << <<FALSE, Head(s)>> >> \o TemplateTokens(Tail(s))

\* What the literal evaluates to: \\ is a backslash, \` a backtick, \$ a '$'.
TemplateValue(s) == LET t == TemplateTokens(s) IN [i \in 1..Len(t) |-> t[i][2]]

\* The body ends only at the closing backtick and interpolates nothing.
TemplateSafe(s) ==
    LET t == TemplateTokens(s) IN
    /\ \A i \in 1..Len(t) :
          /\ t[i][1] => t[i][2] \in {Backslash, Backtick, Dollar}
          /\ ~t[i][1] => t[i][2] # Backtick
    /\ \A i \in 1..(Len(t) - 1) :
          ~(t[i] = <<FALSE, Dollar>> /\ t[i + 1] = <<FALSE, LBrace>>)

FileText(file) == IF file.tag = "text" THEN file.s ELSE <<>>

\* C4: the description and the solution, as written between backticks, read
\* back as a template literal to the text of the file, and hold no backtick
\* and no '${' that is not escaped.
C4_EscapedTextReadsBack ==
    OneConverted =>
       /\ TemplateSafe(TheLiteral.description)
       /\ TemplateValue(TheLiteral.description) = FileText(TheDir.description)
       /\ TemplateSafe(TheLiteral.solution)
       /\ TemplateValue(TheLiteral.solution) = FileText(TheDir.solution)

\* A description with a backslash in front of a backtick and a '${'.
C4_Witness ==
    /\ OneConverted
    /\ TheDir.description.tag = "text"
    /\ \E i \in 1..(Len(TheDir.description.s) - 3) :
          SubSeq(TheDir.description.s, i, i + 3) = <<Backslash, Backtick, Dollar, LBrace>>

-----------------------------------------------------------------------------
(* SpecId: one exercise directory and the names it may have *)

MaxNameLen == 4

IdAlphabet == {"A", "b", "1", Space, Hyphen, EAcute}

InitId ==
    \E name \in TextsUpTo(IdAlphabet, MaxNameLen) \ {<<>>} :
       \E content \in ExerciseDirs({Json(Map({}))}, {Missing}, {Missing}, {Missing}) :
          InitWith(<<Named(name, content)>>)

SpecId == InitId /\ [][Next]_vars

AsciiAlphanumerics ==
    {"A", "M", "Z", "a", "b", "m", "x", "z", "1", "2", "3", "4", "5"}

\* Letters and digits of ASCII, and those of Unicode (str.isalnum).
Alphanumerics == AsciiAlphanumerics \cup {EAcute}
IsAsciiAlnum(c) == c \in AsciiAlphanumerics
IsAlnum(c) == c \in Alphanumerics

\* The maximal runs of s whose characters satisfy P, joined by '-'.
RunsJoined(s, class) ==
    LET P(c) == c \in class
        starts == {i \in 1..Len(s) : P(s[i]) /\ (i = 1 \/ ~P(s[i - 1]))}
        EndOf(i) == CHOOSE j \in i..Len(s) :
                       /\ \A k \in i..j : P(s[k])
                       /\ (j = Len(s) \/ ~P(s[j + 1]))
        RECURSIVE Join(_)
        Join(from) ==
            IF \A i \in starts : i < from THEN <<>>
            ELSE LET i == CHOOSE i \in starts : i >= from /\ \A k \in starts : k >= from => i <= k
                 IN  (IF \E k \in starts : k < i THEN <<Hyphen>> ELSE <<>>)
                         \o SubSeq(s, i, EndOf(i)) \o Join(EndOf(i) + 1)
    IN  Join(1)

-----------------------------------------------------------------------------
(* SpecStdin: one test case and the stdin it may have *)

MaxStdinLen == 5

\* config.json of every shape line 41 meets: a mapping with and without each
\* key on the way to the title, and a value that is no mapping in its place.
ConfigShapes ==
    {Json(Map({})),
     Json(List(<<>>)),
     Json(Map({<<"description", Str(<<"x">>)>>})),
     Json(Map({<<"description", Map({})>>})),
     Json(Map({<<"description", Map({<<"names", Null>>})>>})),
     Json(Map({<<"description", Map({<<"names", Map({})>>})>>})),
     ConfigWithTitle(Str(<<"a">>))}

StdinAlphabet == {"a", Space, Newline}

InitStdin ==
    \E stdin \in {Null, Num(0), Num(5)}
                    \cup {Str(t) : t \in TextsUpTo(StdinAlphabet, MaxStdinLen)} :
       \E content \in ExerciseDirs(
               ConfigShapes, {Missing}, {Missing},
               {Yaml(List(<<TabWithCases(<<Map({<<"stdin", stdin>>})>>)>>))}) :
          InitWith(<<Named(NamePool[1], content)>>)

SpecStdin == InitStdin /\ [][Next]_vars

\* The stdin of the one test case and the input made of it.
TheStdin == Get(SourceCases(TheDir.suite.v.l)[1], "stdin", Null)
TheInput == TheRecord.testCases[1].input

RECURSIVE JoinLines(_)
JoinLines(lines) ==
    IF lines = <<>> THEN <<>>
    ELSE IF Len(lines) = 1 THEN lines[1]
    ELSE lines[1] \o <<Newline>> \o JoinLines(Tail(lines))

\* lines are the lines of blob[from..to]: no line holds a newline, and the
\* lines with newlines between them are that part of the blob.
LinesOfPart(lines, blob, from, to) ==
    /\ Len(lines) >= 1
    /\ \A k \in 1..Len(lines) : \A i \in 1..Len(lines[k]) : lines[k][i] # Newline
    /\ JoinLines(lines) = SubSeq(blob, from, to)

AllWhitespace(blob, from, to) == \A i \in from..to : IsWhitespace(blob[i])

\* C7 as stated: the input is the lines of the blob with the whitespace at
\* its end cut off and nothing cut off its start.
C7_InputIsBlobTrimmedAtEnd ==
    (OneConverted /\ TheStdin.tag = "str" /\ TheStdin.s # <<>>) =>
       LET blob == TheStdin.s IN
       \E to \in 0..Len(blob) :
          /\ AllWhitespace(blob, to + 1, Len(blob))
          /\ to = 0 \/ ~IsWhitespace(blob[to])
          /\ LinesOfPart(TheInput, blob, 1, to)

\* C7, amended: the input is the lines of the blob with the whitespace at
\* its start and at its end cut off.
C7_InputIsBlobTrimmedAtBothEnds ==
    (OneConverted /\ TheStdin.tag = "str" /\ TheStdin.s # <<>>) =>
       LET blob == TheStdin.s IN
       \E from \in 1..(Len(blob) + 1), to \in 0..Len(blob) :
          /\ AllWhitespace(blob, 1, from - 1)
          /\ AllWhitespace(blob, to + 1, Len(blob))
          /\ from <= to => ~IsWhitespace(blob[from]) /\ ~IsWhitespace(blob[to])
          /\ from > to => from = to + 1
          /\ LinesOfPart(TheInput, blob, from, to)

\* A blob with a blank first line, two lines of text and a newline at its end.
C7_Witness ==
    /\ OneConverted
    /\ TheStdin = Str(<<Newline, "a", Newline, "a", Newline>>)
    /\ TheInput = << <<"a">>, <<"a">> >>

====
